---- MODULE Spec2Model ----
(***************************************************************************)
(* A model of main.py, "The AI News Agency": a Streamlit page whose button *)
(* runs a two-task crew (research, write), shows the draft post, asks the  *)
(* language model for an image description and builds an image URL.        *)
(*                                                                         *)
(* Text is modelled as sequences of one-character strings, so that slices, *)
(* concatenation, strip, replace and percent-encoding are computed as the  *)
(* Python code computes them.  Python dicts are functions whose DOMAIN is  *)
(* the set of keys present; d[k] with k outside the DOMAIN is a KeyError.  *)
(***************************************************************************)
EXTENDS Integers, Sequences, FiniteSets, TLC

VARIABLES
    pc,                 \* position of the script run
    environ,            \* os.environ, restricted to the two key names
    secrets,            \* st.secrets, restricted to the two key names
    groq_key,           \* line 108
    task_idx,           \* index of the crew's current task
    running,            \* the current task's agent call is in flight
    outputs,            \* outputs of the tasks that returned, in order
    task_context,       \* what the task in flight was given as context
    failure,            \* which call raised the exception that ended the run
    trace,              \* the run's events, in order
    searches,           \* number of SearchTool._run calls of this run
    call,               \* the last SearchTool._run call
    final_post,         \* line 151
    page,               \* what the page shows, in order
    image_request,      \* the post excerpt the image prompt request embeds
    image_description,  \* line 178
    img                 \* the locals and result of generate_image_url

vars == <<pc, environ, secrets, groq_key, task_idx, running, outputs,
          task_context, failure, trace, searches, call, final_post, page,
          image_request, image_description, img>>

---------------------------------------------------------------------------
(* Bounds of the model.                                                    *)

\* a provider response lists at most this many results
MaxResults == 2
\* result contents are at most this much longer than the snippet limit
MaxExtra == 1
\* the research agent calls the tool at most this many times in one run
MaxSearches == 2
\* image descriptions have at most this many characters
MaxDescLen == 3

(* Program constants.                                                      *)

SnippetLimit == 300
SleepSeconds == 5
SearchMaxResults == 1
PostLimit == 300
SeedMin == 1
SeedMax == 99999
ImageWidth == 1024
ImageHeight == 576

---------------------------------------------------------------------------
(* Text helpers.                                                           *)

Min(a, b) == IF a < b THEN a ELSE b

\* s[:n] of Python, n >= 0
Take(s, n) == SubSeq(s, 1, Min(n, Len(s)))

\* s[n:] of Python, n >= 0
Drop(s, n) == SubSeq(s, n + 1, Len(s))

RECURSIVE Join(_, _)
\* sep.join(parts)
Join(sep, parts) ==
    IF parts = <<>> THEN <<>>
    ELSE IF Len(parts) = 1 THEN parts[1]
    ELSE parts[1] \o sep \o Join(sep, Tail(parts))

SOURCE_ == <<"S","O","U","R","C","E",":"," ">>
CONTENT_ == <<"\n","C","O","N","T","E","N","T",":"," ">>
ELLIPSIS == <<".",".",".">>
SEP == <<"\n","\n">>
ERROR_ == <<"E","r","r","o","r",":"," ">>

\* the characters of a dict key or variable name
NameChars(k) ==
    CASE k = "url" -> <<"u","r","l">>
      [] k = "content" -> <<"c","o","n","t","e","n","t">>
      [] k = "results" -> <<"r","e","s","u","l","t","s">>
      [] k = "TAVILY_API_KEY" -> <<"T","A","V","I","L","Y","_","A","P","I","_","K","E","Y">>
      [] k = "GROQ_API_KEY" -> <<"G","R","O","Q","_","A","P","I","_","K","E","Y">>

---------------------------------------------------------------------------
(* Exceptions and dicts.                                                   *)

NoExc == [type |-> "None", msg |-> <<>>]

\* KeyError(k); str() of it is repr(k)
KeyError(k) == [type |-> "KeyError", msg |-> <<"'">> \o NameChars(k) \o <<"'">>]

EmptyDict == [k \in {} |-> <<>>]

KeyNames == {"GROQ_API_KEY", "TAVILY_API_KEY"}

\* os.environ.get(name) or st.secrets[name]
KeyLookup(env, sec, name) ==
    IF name \in DOMAIN env THEN [exc |-> NoExc, value |-> env[name]]
    ELSE IF name \in DOMAIN sec THEN [exc |-> NoExc, value |-> sec[name]]
    ELSE [exc |-> KeyError(name), value |-> "none"]

---------------------------------------------------------------------------
(* SearchTool._run                                                         *)

\* Snippet with the slice one character too long
Snippet_OffByOne(content) == Take(content, SnippetLimit + 1)

\* item['content'][:300]
Snippet(content) == Take(content, SnippetLimit)

\* f"SOURCE: {item['url']}\nCONTENT: {snippet}..."
Entry(item) ==
    SOURCE_ \o item.url \o CONTENT_ \o Snippet(item.content) \o ELLIPSIS

RECURSIVE Loop(_, _)
\* the for loop: item['content'] is read before item['url']
Loop(items, results) ==
    IF items = <<>> THEN [exc |-> NoExc, results |-> results]
    ELSE LET item == Head(items)
         IN IF "content" \notin DOMAIN item
                THEN [exc |-> KeyError("content"), results |-> results]
            ELSE IF "url" \notin DOMAIN item
                THEN [exc |-> KeyError("url"), results |-> results]
            ELSE Loop(Tail(items), Append(results, Entry(item)))

\* FormatResults keeping the first listed result only
FormatResults_FirstOnly(response) ==
    IF "results" \notin DOMAIN response
        THEN [exc |-> KeyError("results"), results |-> <<>>]
    ELSE Loop(Take(response.results, 1), <<>>)

\* results = []; for item in response['results']: ...
FormatResults(response) ==
    IF "results" \notin DOMAIN response
        THEN [exc |-> KeyError("results"), results |-> <<>>]
    ELSE Loop(response.results, <<>>)

\* Except with a handler that lets a KeyError through
Except_KeyErrorEscapes(e, done) ==
    IF e.type = "KeyError"
        THEN [ret |-> <<>>, raised |-> e,
              events |-> done.events, requests |-> done.requests,
              slept |-> done.slept]
    ELSE [ret |-> ERROR_ \o e.msg, raised |-> NoExc,
          events |-> done.events, requests |-> done.requests,
          slept |-> done.slept]

\* except Exception as e: return f"Error: {str(e)}"
Except(e, done) ==
    [ret |-> ERROR_ \o e.msg, raised |-> NoExc,
     events |-> done.events, requests |-> done.requests, slept |-> done.slept]

\* AfterSearch with the sleep placed before the loop
AfterSearch_SleepFirst(response, done) ==
    LET slept == [events |-> Append(done.events, "sleep"),
                  requests |-> done.requests,
                  slept |-> done.slept + SleepSeconds]
        fmt == FormatResults(response)
    IN IF fmt.exc # NoExc THEN Except(fmt.exc, slept)
       ELSE [ret |-> Join(SEP, fmt.results), raised |-> NoExc,
             events |-> slept.events, requests |-> slept.requests,
             slept |-> slept.slept]

\* lines 53-62: format every listed result, then sleep, then join
AfterSearch(response, done) ==
    LET fmt == FormatResults(response)
    IN IF fmt.exc # NoExc THEN Except(fmt.exc, done)
       ELSE [ret |-> Join(SEP, fmt.results), raised |-> NoExc,
             events |-> Append(done.events, "sleep"),
             requests |-> done.requests,
             slept |-> done.slept + SleepSeconds]

\* tavily.search(query=query, search_depth="basic", max_results=1)
SearchRequest(query) ==
    [query |-> query, search_depth |-> "basic", max_results |-> SearchMaxResults]

NothingDone == [events |-> <<>>, requests |-> <<>>, slept |-> 0]

\* SearchTool._run(query), the provider behaving as `outcome` says
SearchTool_run(env, sec, query, outcome) ==
    LET key == KeyLookup(env, sec, "TAVILY_API_KEY")
    IN IF key.exc # NoExc THEN Except(key.exc, NothingDone)
       ELSE IF outcome.client # NoExc THEN Except(outcome.client, NothingDone)
       ELSE LET asked == [events |-> <<"search">>,
                          requests |-> <<SearchRequest(query)>>,
                          slept |-> 0]
            IN IF outcome.search # NoExc THEN Except(outcome.search, asked)
               ELSE AfterSearch(outcome.response, asked)

---------------------------------------------------------------------------
(* generate_image_url                                                      *)

\* the characters str.strip() removes, among those the model writes
Whitespace == {" ", "\n", "\t"}

RECURSIVE LStrip(_)
LStrip(s) ==
    IF s # <<>> /\ Head(s) \in Whitespace THEN LStrip(Tail(s)) ELSE s

RECURSIVE RStrip(_)
RStrip(s) ==
    IF s # <<>> /\ s[Len(s)] \in Whitespace
        THEN RStrip(SubSeq(s, 1, Len(s) - 1))
    ELSE s

\* s.strip()
Strip(s) == RStrip(LStrip(s))

RECURSIVE Replace(_, _, _)
\* s.replace(old, new), old a single character
Replace(s, old, new) ==
    IF s = <<>> THEN <<>>
    ELSE (IF Head(s) = old THEN new ELSE <<Head(s)>>)
             \o Replace(Tail(s), old, new)

\* prompt.strip().replace("\n", " ").replace('"', '').replace("'", "")
CleanPrompt(prompt) ==
    Replace(Replace(Replace(Strip(prompt), "\n", <<" ">>), "\"", <<>>), "'", <<>>)

\* the characters urllib.parse.quote never encodes
AlwaysSafe ==
    {"a","b","c","d","e","f","g","h","i","j","k","l","m",
     "n","o","p","q","r","s","t","u","v","w","x","y","z",
     "A","B","C","D","E","F","G","H","I","J","K","L","M",
     "N","O","P","Q","R","S","T","U","V","W","X","Y","Z",
     "0","1","2","3","4","5","6","7","8","9","_",".","-",
     "~"}

\* quote(string, safe='/'): the default of the safe parameter
QuoteSafe == AlwaysSafe \cup {"/"}

\* ord(c) of the ASCII characters the model writes outside AlwaysSafe
Ord(c) ==
    CASE c = "\t" -> 9
      [] c = "\n" -> 10
      [] c = " " -> 32
      [] c = "\"" -> 34
      [] c = "#" -> 35
      [] c = "%" -> 37
      [] c = "&" -> 38
      [] c = "'" -> 39
      [] c = "/" -> 47
      [] c = ":" -> 58
      [] c = "=" -> 61
      [] c = "?" -> 63

HexDigits == <<"0","1","2","3","4","5","6","7","8","9","A","B","C","D","E","F">>

\* '%{:02X}'.format(byte)
PercentByte(n) == <<"%", HexDigits[(n \div 16) + 1], HexDigits[(n % 16) + 1]>>

RECURSIVE Quote(_)
\* urllib.parse.quote(s)
Quote(s) ==
    IF s = <<>> THEN <<>>
    ELSE (IF Head(s) \in QuoteSafe THEN <<Head(s)>> ELSE PercentByte(Ord(Head(s))))
             \o Quote(Tail(s))

DecDigits == <<"0","1","2","3","4","5","6","7","8","9">>

RECURSIVE Decimal(_)
\* str(n) of an int n >= 0
Decimal(n) ==
    IF n < 10 THEN <<DecDigits[n + 1]>>
    ELSE Decimal(n \div 10) \o <<DecDigits[(n % 10) + 1]>>

URL_HEAD == <<"h","t","t","p","s",":","/","/","i","m","a","g","e",".","p","o","l","l","i","n","a","t","i","o","n","s",".","a","i","/","p","r","o","m","p","t","/">>
URL_SEED == <<"?","n","o","l","o","g","o","=","t","r","u","e","&","s","e","e","d","=">>
URL_WIDTH == <<"&","w","i","d","t","h","=">>
URL_HEIGHT == <<"&","h","e","i","g","h","t","=">>

\* generate_image_url(prompt), random.randint(1, 99999) having drawn `seed`
generate_image_url(prompt, seed) ==
    LET cleaned_prompt == CleanPrompt(prompt)
        encoded_prompt == Quote(cleaned_prompt)
    IN [cleaned_prompt |-> cleaned_prompt,
        encoded_prompt |-> encoded_prompt,
        seed |-> seed,
        url |-> URL_HEAD \o encoded_prompt \o URL_SEED \o Decimal(seed)
                  \o URL_WIDTH \o Decimal(ImageWidth)
                  \o URL_HEIGHT \o Decimal(ImageHeight)]

---------------------------------------------------------------------------
(* The inputs the model draws.                                             *)

SeqsUpTo(S, n) == UNION {[1..k -> S] : k \in 0..n}

Letters == <<"a","b","c">>

\* a text of n characters in which neighbouring characters differ
TextOf(n) == [i \in 1..n |-> Letters[(i % 3) + 1]]

U1 == <<"h","t","t","p",":","/","/","x">>
U2 == <<"h","t","t","p",":","/","/","y">>
Urls == {U1, U2}

ContentLens == {1} \cup (SnippetLimit .. (SnippetLimit + MaxExtra))
Contents == {TextOf(n) : n \in ContentLens}

\* result items: complete ones, and ones lacking 'content', 'url' or both
Items ==
    {[url |-> u, content |-> c] : u \in Urls, c \in Contents}
        \cup {[url |-> U1], [content |-> TextOf(1)], EmptyDict}

\* provider responses: a dict lacking 'results', or one listing items
Responses ==
    {EmptyDict} \cup {[results |-> r] : r \in SeqsUpTo(Items, MaxResults)}

ClientError ==
    [type |-> "ValueError", msg |-> <<"b","a","d"," ","k","e","y">>]
NetworkError ==
    [type |-> "ConnectionError", msg |-> <<"t","i","m","e","o","u","t">>]
AuthError ==
    [type |-> "InvalidAPIKeyError", msg |-> <<"4","0","1">>]

\* what TavilyClient(...) and tavily.search(...) do in one call
Outcomes ==
    {[client |-> ClientError, search |-> NoExc, response |-> EmptyDict]}
        \cup {[client |-> NoExc, search |-> e, response |-> EmptyDict] :
                 e \in {NetworkError, AuthError}}
        \cup {[client |-> NoExc, search |-> NoExc, response |-> r] :
                 r \in Responses}

NoOutcome == [client |-> NoExc, search |-> NoExc, response |-> EmptyDict]

\* the outcomes the research step of a whole run meets
RunOutcomes ==
    {o \in Outcomes :
        \/ o.client # NoExc
        \/ o.search = NetworkError
        \/ o.response = EmptyDict
        \/ /\ o.search = NoExc
           /\ "results" \in DOMAIN o.response
           /\ \A i \in 1..Len(o.response.results) :
                  LET item == o.response.results[i]
                  IN \/ /\ i = Len(o.response.results)
                        /\ item \in {[url |-> U1], [content |-> TextOf(1)]}
                     \/ item = [url |-> IF i = 1 THEN U1 ELSE U2,
                                content |-> TextOf(SnippetLimit + i - 1)]}

Queries == {"latest trends"}

KeyValue(from, name) == [from |-> from, name |-> name]
NoKey == KeyValue("nowhere", "none")

\* os.environ and st.secrets: any subset of the names holds a key
Environs(names) ==
    {[n \in S |-> KeyValue("environ", n)] : S \in SUBSET names}
Secrets(names) ==
    {[n \in S |-> KeyValue("secrets", n)] : S \in SUBSET names}

\* what the research task and the writing task may return
Facts == {<<"f","1">>, <<"f","2">>}
Posts == {TextOf(2), TextOf(PostLimit + 1)}
TaskOutputs(task) == IF task = "research" THEN Facts ELSE Posts

DescAlphabet == {"a", " ", "\n", "\"", "'", "/", "?", "#"}
Descriptions == SeqsUpTo(DescAlphabet, MaxDescLen)
RunDescriptions == SeqsUpTo(DescAlphabet, 1)

\* values random.randint(1, 99999) can draw, one of each number of digits
\* at the ends of the range
Seeds == {SeedMin, SeedMin + 9, SeedMax - 1, SeedMax}
RunSeeds == {SeedMin, SeedMax}

---------------------------------------------------------------------------
(* State of a run.                                                         *)

NoResult ==
    [ret |-> <<>>, raised |-> NoExc, events |-> <<>>, requests |-> <<>>,
     slept |-> 0]
NoCall ==
    [done |-> FALSE, query |-> "none", outcome |-> NoOutcome,
     result |-> NoResult]
NoImage ==
    [done |-> FALSE,
     out |-> [cleaned_prompt |-> <<>>, encoded_prompt |-> <<>>, seed |-> 0,
              url |-> <<>>]]

Event(ev, what, text) == [ev |-> ev, what |-> what, text |-> text]

\* everything but pc, the keys' stores, the last call and the description
Blank ==
    /\ groq_key = NoKey
    /\ task_idx = 1
    /\ running = FALSE
    /\ outputs = <<>>
    /\ task_context = <<>>
    /\ failure = "none"
    /\ trace = <<>>
    /\ searches = [calls |-> 0, requests |-> 0, slept |-> 0]
    /\ final_post = <<>>
    /\ page = <<>>
    /\ image_request = <<>>
    /\ img = NoImage

\* the script has run down to the button, which is pressed
Init ==
    /\ pc = "button"
    /\ environ \in Environs(KeyNames)
    /\ secrets \in Secrets(KeyNames)
    /\ call = NoCall
    /\ image_description = <<>>
    /\ Blank

---------------------------------------------------------------------------
(* The run of the script after the button is pressed.                      *)

\* lines 104-112: the check of the keys, then the llm and the tool
CheckKeys ==
    /\ pc = "button"
    /\ IF "GROQ_API_KEY" \notin DOMAIN environ
          /\ "GROQ_API_KEY" \notin DOMAIN secrets
         THEN /\ page' = Append(page, Event("error", "keys", <<>>))
              /\ trace' = Append(trace, Event("error_shown", "keys", <<>>))
              /\ pc' = "stopped"
              /\ UNCHANGED groq_key
         ELSE /\ groq_key' = KeyLookup(environ, secrets, "GROQ_API_KEY").value
              /\ trace' = Append(trace, Event("keys_found", "keys", <<>>))
              /\ pc' = "kickoff"
              /\ UNCHANGED page
    /\ UNCHANGED <<environ, secrets, task_idx, running, outputs, task_context,
                   failure, searches, call, final_post, image_request,
                   image_description, img>>

\* tasks with the two tasks listed the other way round
tasks_Swapped == <<"write", "research">>

\* Crew(agents=[researcher, writer], tasks=[task_research, task_write])
tasks == <<"research", "write">>

\* tools=[search_tool] of the researcher; the writer has no tools
ToolsOf(task) == IF task = "research" THEN {"Search"} ELSE {}

\* crew.kickoff: the next task of the list starts, given the output of the
\* task before it as context
StartTask ==
    /\ pc = "kickoff"
    /\ ~running
    /\ task_idx <= Len(tasks)
    /\ running' = TRUE
    /\ task_context' = IF outputs = <<>> THEN <<>> ELSE outputs[Len(outputs)]
    /\ trace' = Append(trace, Event("start", tasks[task_idx], task_context'))
    /\ UNCHANGED <<pc, environ, secrets, groq_key, task_idx, outputs, failure,
                   searches, call, final_post, page, image_request,
                   image_description, img>>

\* the agent of the task in flight calls its Search tool
SearchCall(query, outcome) ==
    /\ pc = "kickoff"
    /\ running
    /\ "Search" \in ToolsOf(tasks[task_idx])
    /\ searches.calls < MaxSearches
    /\ LET r == SearchTool_run(environ, secrets, query, outcome)
       IN /\ call' = [done |-> TRUE, query |-> query, outcome |-> outcome,
                      result |-> r]
          /\ searches' = [calls |-> searches.calls + 1,
                          requests |-> searches.requests + Len(r.requests),
                          slept |-> searches.slept + r.slept]
          /\ IF r.raised = NoExc
               THEN UNCHANGED <<pc, running, failure, trace>>
               ELSE /\ pc' = "crashed"
                    /\ running' = FALSE
                    /\ failure' = "tool"
                    /\ trace' = Append(trace, Event("fail", "tool", <<>>))
    /\ UNCHANGED <<environ, secrets, groq_key, task_idx, outputs,
                   task_context, final_post, page, image_request,
                   image_description, img>>

\* the task in flight returns its text
ReturnTask(text) ==
    /\ pc = "kickoff"
    /\ running
    /\ text \in TaskOutputs(tasks[task_idx])
    /\ running' = FALSE
    /\ outputs' = Append(outputs, text)
    /\ task_idx' = task_idx + 1
    /\ trace' = Append(trace, Event("return", tasks[task_idx], text))
    /\ UNCHANGED <<pc, environ, secrets, groq_key, task_context, failure,
                   searches, call, final_post, page, image_request,
                   image_description, img>>

\* FailTask with the exception swallowed: the crew goes on to the next task
FailTask_Swallowed ==
    /\ pc = "kickoff"
    /\ running
    /\ running' = FALSE
    /\ outputs' = Append(outputs, <<>>)
    /\ task_idx' = task_idx + 1
    /\ trace' = Append(trace, Event("fail", tasks[task_idx], <<>>))
    /\ UNCHANGED <<pc, environ, secrets, groq_key, task_context, failure,
                   searches, call, final_post, page, image_request,
                   image_description, img>>

\* the task in flight raises: nothing around crew.kickoff catches it
FailTask ==
    /\ pc = "kickoff"
    /\ running
    /\ running' = FALSE
    /\ failure' = tasks[task_idx]
    /\ pc' = "crashed"
    /\ trace' = Append(trace, Event("fail", tasks[task_idx], <<>>))
    /\ UNCHANGED <<environ, secrets, groq_key, task_idx, outputs,
                   task_context, searches, call, final_post, page,
                   image_request, image_description, img>>

\* lines 150-152: result = crew.kickoff(...); final_post = str(result)
KickoffDone ==
    /\ pc = "kickoff"
    /\ ~running
    /\ task_idx > Len(tasks)
    /\ final_post' = outputs[Len(outputs)]
    /\ pc' = "display"
    /\ UNCHANGED <<environ, secrets, groq_key, task_idx, running, outputs,
                   task_context, failure, trace, searches, call, page,
                   image_request, image_description, img>>

\* lines 157-160: the draft post goes to the page
DisplayPost ==
    /\ pc = "display"
    /\ page' = Append(page, Event("post", "page", final_post))
    /\ trace' = Append(trace, Event("post_shown", "page", final_post))
    /\ pc' = "image_prompt"
    /\ UNCHANGED <<environ, secrets, groq_key, task_idx, running, outputs,
                   task_context, failure, searches, call, final_post,
                   image_request, image_description, img>>

\* PostExcerpt without the slice
PostExcerpt_Whole(post) == post

\* final_post[:300], the part of the post the request embeds
PostExcerpt(post) == Take(post, PostLimit)

\* lines 169-178: the request is built and llm.call is made
ImagePromptCall ==
    /\ pc = "image_prompt"
    /\ image_request' = PostExcerpt(final_post)
    /\ trace' = Append(trace, Event("start", "image_prompt", image_request'))
    /\ pc' = "image_wait"
    /\ UNCHANGED <<environ, secrets, groq_key, task_idx, running, outputs,
                   task_context, failure, searches, call, final_post, page,
                   image_description, img>>

\* llm.call returns the description
ImagePromptReturn(description) ==
    /\ pc = "image_wait"
    /\ image_description' = description
    /\ trace' = Append(trace, Event("return", "image_prompt", description))
    /\ pc' = "build_url"
    /\ UNCHANGED <<environ, secrets, groq_key, task_idx, running, outputs,
                   task_context, failure, searches, call, final_post, page,
                   image_request, img>>

\* llm.call raises: nothing catches it
ImagePromptFail ==
    /\ pc = "image_wait"
    /\ failure' = "image_prompt"
    /\ trace' = Append(trace, Event("fail", "image_prompt", <<>>))
    /\ pc' = "crashed"
    /\ UNCHANGED <<environ, secrets, groq_key, task_idx, running, outputs,
                   task_context, searches, call, final_post, page,
                   image_request, image_description, img>>

\* line 183: image_url = generate_image_url(image_description)
BuildImageUrl(seed) ==
    /\ pc = "build_url"
    /\ img' = [done |-> TRUE, out |-> generate_image_url(image_description, seed)]
    /\ trace' = Append(trace, Event("url_built", "page", img'.out.url))
    /\ pc' = "show_image"
    /\ UNCHANGED <<environ, secrets, groq_key, task_idx, running, outputs,
                   task_context, failure, searches, call, final_post, page,
                   image_request, image_description>>

\* lines 185-188: the image and its link go to the page
ShowImage ==
    /\ pc = "show_image"
    /\ page' = Append(page, Event("image", "page", img.out.url))
    /\ trace' = Append(trace, Event("image_shown", "page", img.out.url))
    /\ pc' = "done"
    /\ UNCHANGED <<environ, secrets, groq_key, task_idx, running, outputs,
                   task_context, failure, searches, call, final_post,
                   image_request, image_description, img>>

Next ==
    \/ CheckKeys
    \/ StartTask
    \/ \E q \in Queries, o \in RunOutcomes : SearchCall(q, o)
    \/ \E text \in Facts \cup Posts : ReturnTask(text)
    \/ FailTask
    \/ KickoffDone
    \/ DisplayPost
    \/ ImagePromptCall
    \/ \E d \in RunDescriptions : ImagePromptReturn(d)
    \/ ImagePromptFail
    \/ \E seed \in RunSeeds : BuildImageUrl(seed)
    \/ ShowImage

Spec == Init /\ [][Next]_vars

---------------------------------------------------------------------------
(* SearchTool._run alone: one call on drawn inputs.                        *)

InitSearch ==
    /\ pc = "tool"
    /\ environ \in Environs({"TAVILY_API_KEY"})
    /\ secrets \in Secrets({"TAVILY_API_KEY"})
    /\ \E q \in Queries, o \in Outcomes :
           call = [done |-> FALSE, query |-> q, outcome |-> o,
                   result |-> NoResult]
    /\ image_description = <<>>
    /\ Blank

RunSearch ==
    /\ pc = "tool"
    /\ call' = [call EXCEPT
                   !.done = TRUE,
                   !.result = SearchTool_run(environ, secrets, call.query,
                                             call.outcome)]
    /\ pc' = "returned"
    /\ UNCHANGED <<environ, secrets, groq_key, task_idx, running, outputs,
                   task_context, failure, trace, searches, final_post, page,
                   image_request, image_description, img>>

NextSearch == RunSearch

SpecSearch == InitSearch /\ [][NextSearch]_vars

---------------------------------------------------------------------------
(* generate_image_url alone: one call on a drawn description.              *)

InitImage ==
    /\ pc = "helper"
    /\ environ = EmptyDict
    /\ secrets = EmptyDict
    /\ call = NoCall
    /\ image_description \in Descriptions
    /\ Blank

RunGenerate(seed) ==
    /\ pc = "helper"
    /\ img' = [done |-> TRUE, out |-> generate_image_url(image_description, seed)]
    /\ pc' = "returned"
    /\ UNCHANGED <<environ, secrets, groq_key, task_idx, running, outputs,
                   task_context, failure, trace, searches, call, final_post,
                   page, image_request, image_description>>

NextImage == \E seed \in Seeds : RunGenerate(seed)

SpecImage == InitImage /\ [][NextImage]_vars

---------------------------------------------------------------------------
(* Vocabulary of the properties.                                           *)

\* the key is in neither os.environ nor st.secrets
KeyAbsent(name) == name \notin DOMAIN environ /\ name \notin DOMAIN secrets

\* the positions of the trace holding the event (ev, what)
Where(ev, what) ==
    {i \in 1..Len(trace) : trace[i].ev = ev /\ trace[i].what = what}

Happened(ev, what) == Where(ev, what) # {}

\* calls of the language model made so far: every task and the image prompt
LlmCalls == Cardinality({i \in 1..Len(trace) : trace[i].ev = "start"})

\* external calls made so far
ExternalCalls == LlmCalls + searches.requests

\* the page shows the error message of the key check
ErrorShown == \E i \in 1..Len(page) : page[i].ev = "error"

\* the page shows the draft post
PostShown ==
    \E i \in 1..Len(page) : page[i].ev = "post" /\ page[i].text = final_post

\* p occurs in s at position i
IsAt(p, s, i) ==
    /\ i >= 1
    /\ i + Len(p) - 1 <= Len(s)
    /\ \A j \in 1..Len(p) : s[i + j - 1] = p[j]

StartsWith(s, p) == IsAt(p, s, 1)

ErrorPrefix == <<"E","r","r","o","r",":">>

\* the call returned an "Error:" string
ReturnedError == StartsWith(call.result.ret, ErrorPrefix)

\* the key lookup and the client construction of the last call succeeded
ReachedProvider ==
    /\ ~KeyAbsent("TAVILY_API_KEY")
    /\ call.outcome.client = NoExc

\* the provider answered the request of the last call
Responded == ReachedProvider /\ call.outcome.search = NoExc

Complete(item) == {"url", "content"} \subseteq DOMAIN item

\* the response of the last call lists only complete items
WellFormed ==
    /\ "results" \in DOMAIN call.outcome.response
    /\ \A i \in 1..Len(call.outcome.response.results) :
           Complete(call.outcome.response.results[i])

\* the message of the failure the last call meets first
FailureMessage ==
    IF KeyAbsent("TAVILY_API_KEY")
        THEN <<"'","T","A","V","I","L","Y","_","A","P","I","_","K","E","Y","'">>
    ELSE IF call.outcome.client # NoExc THEN call.outcome.client.msg
    ELSE IF call.outcome.search # NoExc THEN call.outcome.search.msg
    ELSE IF "results" \notin DOMAIN call.outcome.response
        THEN <<"'","r","e","s","u","l","t","s","'">>
    ELSE LET items == call.outcome.response.results
             bad == CHOOSE i \in 1..Len(items) :
                        /\ ~Complete(items[i])
                        /\ \A j \in 1..(i - 1) : Complete(items[j])
         IN IF "content" \notin DOMAIN items[bad]
                THEN <<"'","c","o","n","t","e","n","t","'">>
            ELSE <<"'","u","r","l","'">>

\* the last call met a failure
CallFails == ~(Responded /\ WellFormed)

---------------------------------------------------------------------------
(* The properties.                                                         *)

\* C1: when one of the two API keys is in neither the environment nor the
\* secrets store, the run halts with the error on the page and no external
\* call (search request or language-model call) is ever made.
C1_MissingKeyHaltsRun ==
    (pc # "button" /\ \E n \in KeyNames : KeyAbsent(n))
        => /\ pc = "stopped"
           /\ ErrorShown
           /\ ExternalCalls = 0

\* C2: SearchTool._run never raises: a call that meets a failure returns
\* "Error: " followed by the failure's message, and the run goes on with
\* that string as the tool result; it is never the tool that ends the run.
C2_SearchNeverRaises ==
    call.done
        => /\ call.result.raised = NoExc
           /\ failure # "tool"
           /\ ~Happened("fail", "tool")
           /\ CallFails
                  => /\ call.result.ret = ERROR_ \o FailureMessage
                     /\ ReturnedError

\* C2 witness: a run that came to its end after a failed search call
C2_Witness == pc = "done" /\ call.done /\ CallFails /\ ReturnedError

\* C3: the research step is first, the writing step starts only after the
\* research step returned, the two are never in flight together, and the
\* writing step is given the research step's output as its context.
C3_ResearchThenWrite ==
    /\ \A i \in Where("start", "write") :
           \E j \in Where("return", "research") :
               /\ j < i
               /\ trace[i].text = trace[j].text
               /\ trace[j].text \in Facts
    /\ \A i \in Where("start", "write") :
           \E j \in Where("start", "research") : j < i
    /\ (running /\ Happened("start", "write"))
           => /\ Happened("return", "research")
              /\ task_context = trace[CHOOSE j \in Where("return", "research") : TRUE].text
    /\ Cardinality(Where("start", "research")) <= 1
    /\ Cardinality(Where("start", "write")) <= 1

\* C3 witness: the writing step is in flight
C3_Witness ==
    /\ running
    /\ Happened("start", "write")
    /\ ~Happened("return", "write")
    /\ task_context \in Facts

\* C4: once the research step has failed fatally the run is over: the
\* writing step and the image prompt are never called, no image URL is
\* built, no draft post exists or is shown, and research is not retried.
C4_ResearchFailureHalts ==
    Happened("fail", "research")
        => /\ pc = "crashed"
           /\ ~running
           /\ ~Happened("start", "write")
           /\ ~Happened("start", "image_prompt")
           /\ ~img.done
           /\ final_post = <<>>
           /\ outputs = <<>>
           /\ page = <<>>
           /\ Cardinality(Where("start", "research")) = 1
           /\ trace[Len(trace)] = Event("fail", "research", <<>>)

\* C4 witness: the research step failed after a search call
C4_Witness == Happened("fail", "research") /\ call.done

\* C5: a call that returns a non-error result has slept 5 seconds exactly
\* once, after the provider request; a call that returns an "Error:"
\* string has not slept, also when the request itself had succeeded.
C5_SleepIffSuccess ==
    call.done
        => IF ReturnedError
               THEN /\ call.result.slept = 0
                    /\ \A i \in 1..Len(call.result.events) :
                           call.result.events[i] # "sleep"
           ELSE /\ call.result.slept = 5
                /\ call.result.events = <<"search", "sleep">>

\* C5 witness: the request succeeded, the response was malformed, and the
\* call returned an error
C5_Witness ==
    /\ call.done
    /\ Responded
    /\ ~WellFormed
    /\ ReturnedError
    /\ call.result.events = <<"search">>

---------------------------------------------------------------------------
(* The format of a search result, written out.                             *)

SourceLabel == <<"S","O","U","R","C","E",":"," ">>
ContentLabel == <<"\n","C","O","N","T","E","N","T",":"," ">>
Dots == <<".",".",".">>

\* the number of characters of the content that an entry shows
ShownLen(item) ==
    IF Len(item.content) > 300 THEN 300 ELSE Len(item.content)

EntryLen(item) ==
    Len(SourceLabel) + Len(item.url) + Len(ContentLabel) + ShownLen(item)
        + Len(Dots)

\* the entry of the item stands in s at position p
IsEntryAt(s, p, item) ==
    LET u == p + Len(SourceLabel)
        c == u + Len(item.url)
        t == c + Len(ContentLabel)
    IN /\ IsAt(SourceLabel, s, p)
       /\ IsAt(item.url, s, u)
       /\ IsAt(ContentLabel, s, c)
       /\ t + ShownLen(item) - 1 <= Len(s)
       /\ \A i \in 1..ShownLen(item) : s[t + i - 1] = item.content[i]
       /\ IsAt(Dots, s, t + ShownLen(item))

\* the positions at which p occurs in s
Positions(p, s) == {i \in 1..Len(s) : IsAt(p, s, i)}

\* the n-th of them
NthPosition(p, s, n) ==
    CHOOSE i \in Positions(p, s) :
        Cardinality({j \in Positions(p, s) : j < i}) = n - 1

\* the request the code is to send for the last call's query
BasicRequest ==
    [query |-> call.query, search_depth |-> "basic", max_results |-> 1]

\* C6: for a response of one result {url, content} the call returns
\* "SOURCE: <url>\nCONTENT: <snippet>..." where the snippet is the first
\* 300 characters of the content when it is longer, the whole content
\* otherwise, and never more than 300 characters.
C6_EntryFormat ==
    (/\ call.done
     /\ Responded
     /\ WellFormed
     /\ Len(call.outcome.response.results) = 1)
        => LET item == call.outcome.response.results[1]
               ret == call.result.ret
           IN /\ IsEntryAt(ret, 1, item)
              /\ Len(ret) = EntryLen(item)
              /\ Len(ret) - Len(SourceLabel) - Len(item.url)
                     - Len(ContentLabel) - Len(Dots) <= 300

\* C6 witness: one result whose content is longer than 300 characters
C6_Witness ==
    /\ call.done
    /\ Responded
    /\ WellFormed
    /\ Len(call.outcome.response.results) = 1
    /\ Len(call.outcome.response.results[1].content) > 300
    /\ ~ReturnedError

\* C7 as it was stated: a call that got a response sent exactly one
\* request (depth "basic", max results 1), and for any response listing
\* results, also more than one, it returns exactly one SOURCE/CONTENT
\* entry, that of the first result.
C7_OnlyFirstResult ==
    (call.done /\ Responded)
        => /\ call.result.requests = <<BasicRequest>>
           /\ (WellFormed /\ Len(call.outcome.response.results) >= 1)
                  => LET item == call.outcome.response.results[1]
                         ret == call.result.ret
                     IN /\ Cardinality(Positions(SourceLabel, ret)) = 1
                        /\ Cardinality(Positions(ContentLabel, ret)) = 1
                        /\ IsEntryAt(ret, 1, item)
                        /\ Len(ret) = EntryLen(item)

\* C7, amended: a call sends at most one request (depth "basic", max
\* results 1), exactly one once the key and the client are there, and it
\* keeps every result the response lists: for a response listing n
\* complete results it returns exactly n SOURCE/CONTENT entries, those of
\* the results in the listed order, so exactly one entry, that of the first
\* result, exactly when the response lists one result.
C7_EveryListedResult ==
    call.done
        => /\ call.result.requests =
                  (IF ReachedProvider THEN <<BasicRequest>> ELSE <<>>)
           /\ (Responded /\ WellFormed)
                  => LET items == call.outcome.response.results
                         ret == call.result.ret
                     IN /\ ~ReturnedError
                        /\ Cardinality(Positions(SourceLabel, ret)) = Len(items)
                        /\ Cardinality(Positions(ContentLabel, ret)) = Len(items)
                        /\ \A i \in 1..Len(items) :
                               IsEntryAt(ret, NthPosition(SourceLabel, ret, i),
                                         items[i])
                        /\ (Len(items) = 1 => Len(ret) = EntryLen(items[1]))

\* C7 witness: a response listing two different results was formatted
C7_Witness ==
    /\ call.done
    /\ Responded
    /\ WellFormed
    /\ Len(call.outcome.response.results) = 2
    /\ call.outcome.response.results[1] # call.outcome.response.results[2]
    /\ ~ReturnedError

---------------------------------------------------------------------------
(* The image URL, written out.                                             *)

PromptUrl ==
    <<"h","t","t","p","s",":","/","/","i","m","a","g","e",".",
      "p","o","l","l","i","n","a","t","i","o","n","s",".","a","i",
      "/","p","r","o","m","p","t","/">>
SeedLabel ==
    <<"?","n","o","l","o","g","o","=","t","r","u","e","&","s","e","e","d","=">>
SizeLabel ==
    <<"&","w","i","d","t","h","=","1","0","2","4",
      "&","h","e","i","g","h","t","=","5","7","6">>

Digit(c) ==
    CASE c = "0" -> 0 [] c = "1" -> 1 [] c = "2" -> 2 [] c = "3" -> 3
      [] c = "4" -> 4 [] c = "5" -> 5 [] c = "6" -> 6 [] c = "7" -> 7
      [] c = "8" -> 8 [] c = "9" -> 9

RECURSIVE NumberOf(_)
\* the number a sequence of decimal digits writes
NumberOf(digits) ==
    IF digits = <<>> THEN 0
    ELSE 10 * NumberOf(SubSeq(digits, 1, Len(digits) - 1))
             + Digit(digits[Len(digits)])

IsNumeral(digits) ==
    /\ digits # <<>>
    /\ \A i \in 1..Len(digits) :
           digits[i] \in {"0","1","2","3","4","5","6","7","8","9"}
    /\ (Len(digits) > 1 => digits[1] # "0")

Has(s, chars) == \E i \in 1..Len(s) : s[i] \in chars

\* s without the characters of chars
Without(s, chars) == SelectSeq(s, LAMBDA c : c \notin chars)

\* C8: for every description the URL is
\* https://image.pollinations.ai/prompt/<encoded>?nologo=true&seed=<n>&width=1024&height=576
\* with 1 <= n <= 99999 and <encoded> free of quotes, newlines and of the
\* characters '/', '?' and '#' that end or split a path segment.
C8_UrlShape ==
    img.done
        => LET url == img.out.url
               enc == img.out.encoded_prompt
               rest == Drop(url, Len(PromptUrl) + Len(enc) + Len(SeedLabel))
               digits == Take(rest, Len(rest) - Len(SizeLabel))
           IN /\ StartsWith(url, PromptUrl \o enc \o SeedLabel)
              /\ Len(rest) > Len(SizeLabel)
              /\ IsAt(SizeLabel, rest, Len(digits) + 1)
              /\ IsNumeral(digits)
              /\ NumberOf(digits) >= 1
              /\ NumberOf(digits) <= 99999
              /\ ~Has(enc, {"'", "\"", "\n", "/", "?", "#"})

\* C9: the text that is percent-encoded is the description without its
\* newlines and quotes, trimmed: it has no whitespace at either end.
C9_Sanitized ==
    img.done
        => LET cleaned == img.out.cleaned_prompt
           IN /\ cleaned = Strip(Without(image_description, {"\n", "\"", "'"}))
              /\ (cleaned # <<>>
                      => /\ cleaned[1] \notin Whitespace
                         /\ cleaned[Len(cleaned)] \notin Whitespace)

---------------------------------------------------------------------------
(* The order of a run.                                                     *)

\* the events of a run that meets no failure, in their order
RunOrder ==
    <<<<"keys_found", "keys">>,
      <<"start", "research">>, <<"return", "research">>,
      <<"start", "write">>, <<"return", "write">>,
      <<"post_shown", "page">>,
      <<"start", "image_prompt">>, <<"return", "image_prompt">>,
      <<"url_built", "page">>,
      <<"image_shown", "page">>>>

Ends == {"fail", "error_shown"}

\* C10: the events of a run come in the order key check, research, writing,
\* post shown, image prompt call on the first 300 characters of the post,
\* image URL built, image shown; a failure ends the run.  So a failed image
\* prompt call leaves the post on the page, and an image URL is built only
\* after the writing step and the image prompt call both returned.
C10_RunOrder ==
    /\ Len(trace) <= Len(RunOrder)
    /\ \A i \in 1..Len(trace) :
           \/ <<trace[i].ev, trace[i].what>> = RunOrder[i]
           \/ /\ i = Len(trace)
              /\ trace[i].ev \in Ends
              /\ i > 1 => trace[i].what = RunOrder[i - 1][2]
    /\ Happened("start", "image_prompt")
           => /\ Len(image_request) = Min(Len(final_post), 300)
              /\ \A i \in 1..Len(image_request) :
                     image_request[i] = final_post[i]
              /\ trace[CHOOSE i \in Where("start", "image_prompt") : TRUE].text
                     = image_request
    /\ Happened("fail", "image_prompt") => PostShown /\ ~img.done
    /\ img.done
           => /\ Happened("return", "write")
              /\ Happened("return", "image_prompt")
              /\ PostShown

\* C10 witness: the image prompt call failed on a post longer than 300
\* characters that the page already shows
C10_Witness ==
    /\ Happened("fail", "image_prompt")
    /\ Len(final_post) > 300
    /\ PostShown
    /\ pc = "crashed"

====
